---- MODULE Spec2Model ----
(***************************************************************************)
(* A model of the PStats server's per-client bookkeeping                   *)
(* (pandatool/src/pstatserver/pStatClientData.cxx): the collector          *)
(* registry, the thread table, the liveness flag and close(); of the       *)
(* listener that accepts its connections; and of the GTK monitor that      *)
(* displays it (pandatool/src/gtk-stats/gtkStatsMonitor.cxx).              *)
(*                                                                         *)
(* A C++ vector is a sequence; element i of the vector is element i + 1    *)
(* of the sequence.  A null pointer is NULL; a non-null pointer is the     *)
(* record it points to.                                                    *)
(***************************************************************************)
EXTENDS Integers, Sequences, FiniteSets, TLC

(***************************************************************************)
(* Bounds of the model.                                                    *)
(***************************************************************************)
\* The highest valid collector index a client sends.
MaxCollector == 2
\* The highest valid thread index a client sends.
MaxThread == 1
\* The number of vector slots the allocator can supply before push_back
\* throws (std::bad_alloc / std::length_error).
MemSlots == 4
\* The highest frame number a client sends.
MaxFrame == 2
\* The highest timestamp a frame carries, in half seconds.
MaxTime == 2
\* The number of connections the listener is followed through.
MaxConnections == 4
\* The number of close() calls followed.
MaxCloseCalls == 2
\* The retention horizon a frame store starts with, in half seconds.
InitialHistory == 2
\* The number of graphs a monitor opens in its life.
MaxGraphs == 2
\* The highest index of a top-level collector that reports a level.
MaxLevelCollector == 3

(***************************************************************************)
(* Program constants.                                                      *)
(***************************************************************************)
\* nassertv(def->_index < 1000), nassertv(thread_index < 1000)
IndexLimit == 1000

\* double get_frame_rate(double time = 3.0): 3 seconds, in half seconds.
DefaultFrameRateWindow == 6

NULL == [null |-> TRUE]

\* PStatCollectorDef PStatClientData::_null_collector(-1, "Unknown");
_null_collector == [_index |-> -1, _name |-> "Unknown"]

\* The PStatReader the client data is constructed with.
TheReader == [reader |-> TRUE]

\* Thread(): an empty name and a null PStatThreadData pointer.
NewThread == [_name |-> "", _data |-> NULL]

\* PStatFrameData PStatThreadData::_null_frame: the empty frame.
_null_frame == [empty |-> TRUE]

\* new PStatThreadData(client_data): no frame yet.
NewThreadData ==
  [_frames |-> <<>>, _first_frame_number |-> 0, _history |-> InitialHistory]

\* GtkStatsMonitor::GtkStatsMonitor: no window, the settings zeroed, no
\* graph, chart menu or status-bar label.  _graphs maps each graph pointer
\* in the set to the graph it points to.
NewMonitor ==
  [_window |-> NULL, _time_units |-> "0", _scroll_speed |-> 0,
   _pause |-> FALSE, _graphs |-> <<>>, _chart_menus |-> <<>>,
   _status_bar_labels |-> <<>>, _status_bar_collectors |-> <<>>]

\* gtk_window_new(GTK_WINDOW_TOPLEVEL)
TheWindow == [kind |-> "window", id |-> 0]

\* new GtkStatsStripChart / PianoRoll / FlameGraph / Timeline: a graph the
\* monitor has told nothing yet.
NewGraph(kind, collector_index) ==
  [kind |-> kind, collector_index |-> collector_index,
   time_units |-> "unset", scroll_speed |-> 0, pause |-> FALSE]

\* gtk_label_new(""): the first label of the status bar.
EmptyLabel == [collector |-> -1, value |-> 0]

\* The text of a collector's label: def._name + ": " + the formatted value.
LabelText(collector, value) == [collector |-> collector, value |-> value]

VARIABLES
  _is_alive,      \* PStatClientData::_is_alive
  _reader,        \* PStatClientData::_reader: "reader" or NULL
  _collectors,    \* PStatClientData::_collectors: vector of PStatCollectorDef *
  _threads,       \* PStatClientData::_threads: vector of Thread
  aborted,        \* the process died of an exception no one catches
  reader_closes,  \* history: the number of PStatReader::close() calls made
  close_calls,    \* history: the number of PStatClientData::close() calls made
  accepted,       \* history: collector index -> the last definition stored
  named,          \* history: thread index -> the last non-empty name stored
  initialized,    \* the session's bootstrap is complete
  client_known,   \* a hello with a compatible version has been received
  bad_version,    \* a hello with an incompatible version has been received
  observed,       \* the notifications the monitor has been given
  dropped,        \* the kinds of event that arrived after the session had
                  \* closed, and were not applied
  _readers,       \* PStatServer::_readers: connection -> PStatReader
  nout,           \* the lines the listener has written to nout
  pc,             \* where each caller of close() stands in it
  gtk_monitor,    \* the GtkStatsMonitor object: its fields
  deleted,        \* history: object -> the number of times it was deleted
                  \* (delete, gtk_widget_destroy)
  destructed      \* the GtkStatsMonitor's destructor has run

\* The variables of the session around the client data: the reader that
\* dispatches decoded events and the monitor it notifies.
sessvars == <<initialized, client_known, bad_version, observed, dropped>>

\* The variables of the listener and its manager.
listenvars == <<_readers, nout>>

\* The callers of close() on one session: the reader's decode path, on a
\* disconnect, and the monitor, on a shutdown request (window_destroy).
Callers == {"decode", "shutdown"}

\* The variables of close() run by several threads.
closevars == <<pc>>

\* The variables of the GTK monitor.
monitorvars == <<gtk_monitor, deleted, destructed>>

vars == <<_is_alive, _reader, _collectors, _threads, aborted, reader_closes,
          close_calls, accepted, named, sessvars, listenvars, closevars,
          monitorvars>>

\* The variables of the client data.
clientvars == <<_is_alive, _reader, _collectors, _threads, aborted,
                reader_closes, close_calls, accepted, named>>

(***************************************************************************)
(* Inputs.                                                                 *)
(***************************************************************************)
CollectorNames == {"B", "C"}

\* Indices a client may put in a definition: valid ones, a negative one and
\* the first one the sanity check refuses.
CollectorIndices == {-1} \cup (0 .. MaxCollector) \cup {IndexLimit}

\* Parent links a client may send: any valid index (defined yet or not) or -1.
ParentIndices == {-1} \cup (0 .. MaxCollector)

CollectorDefs ==
  [_index : CollectorIndices, _name : CollectorNames,
   _parent_index : ParentIndices]

\* Arguments of the lookups: below, inside and beyond every allocated range.
QueryIndices == (-2 .. MaxCollector + 1) \cup {IndexLimit}

\* The same for the thread table.  The empty name is define_thread's default.
ThreadNames == {"", "Main", "Render"}
ThreadIndices == {-1} \cup (0 .. MaxThread) \cup {IndexLimit}
ThreadQueryIndices == (-2 .. MaxThread + 1) \cup {IndexLimit}

\* The addresses connections come from.
Addresses == {"10.0.0.1", "10.0.0.2"}

\* A PStatFrameData is [time |-> t]: its timestamp stands for the payload.
\* The two ends of the range of frame numbers: enough where a store's
\* content is not the subject.
EndFrameNumbers == {0, MaxFrame}

\* The inputs of a frame store: every frame number, every timestamp, and a
\* short and a long retention horizon.
FrameNumbers == 0 .. MaxFrame
Times == 0 .. MaxTime
FrameDatas == [time : Times]
Histories == {1, MaxTime}

(***************************************************************************)
(* Lookups of the collector registry.                                      *)
(***************************************************************************)
\* A variant of has_collector that forgets the null check.
has_collector_in_range(index) ==
  index >= 0 /\ index < Len(_collectors)

has_collector(index) ==
  /\ index >= 0
  /\ index < Len(_collectors)
  /\ _collectors[index + 1] # NULL

get_collector_def(index) ==
  IF ~has_collector(index) THEN _null_collector
  ELSE _collectors[index + 1]

get_collector_name(index) ==
  IF ~has_collector(index) THEN "Unknown"
  ELSE _collectors[index + 1]._name

\* What a call that may recurse without end produces: a value, or no return
\* at all (the recursion never reaches a base case and exhausts the stack).
Return(v) == [returns |-> TRUE, value |-> v]
NoReturn == [returns |-> FALSE]

\* A chain of parent links that visits more collectors than the registry
\* has slots has visited one of them twice, and so never ends: a recursion
\* that has made CallBudget nested calls and needs another never returns.
CallBudget == Len(_collectors) + 1

\* A variant of get_collector_fullname that does not stop below the root: it
\* prepends the root's own path as well.
RECURSIVE get_collector_fullname_with_root(_, _)
get_collector_fullname_with_root(index, calls) ==
  IF calls = 0 THEN NoReturn
  ELSE IF ~has_collector(index) THEN Return("Unknown")
  ELSE LET def == _collectors[index + 1] IN
       IF index = 0 THEN Return(def._name)
       ELSE LET up == get_collector_fullname_with_root(def._parent_index,
                                                       calls - 1)
            IN  IF up.returns THEN Return(up.value \o ":" \o def._name)
                ELSE NoReturn

RECURSIVE get_collector_fullname_rec(_, _)
get_collector_fullname_rec(index, calls) ==
  IF calls = 0 THEN NoReturn
  ELSE IF ~has_collector(index) THEN Return("Unknown")
  ELSE LET def == _collectors[index + 1] IN
       IF def._parent_index = 0 THEN Return(def._name)
       ELSE LET up == get_collector_fullname_rec(def._parent_index, calls - 1)
            IN  IF up.returns THEN Return(up.value \o ":" \o def._name)
                ELSE NoReturn

get_collector_fullname(index) ==
  get_collector_fullname_rec(index, CallBudget)

\* A variant of get_child_distance that tests the child before it compares
\* the two indices.
RECURSIVE get_child_distance_child_first(_, _, _)
get_child_distance_child_first(parent, child, calls) ==
  IF calls = 0 THEN NoReturn
  ELSE IF ~has_collector(child) \/ child = 0 THEN Return(-1)
  ELSE IF parent = child THEN Return(0)
  ELSE LET dist == get_child_distance_child_first(
                     parent, get_collector_def(child)._parent_index, calls - 1)
       IN  IF ~dist.returns THEN NoReturn
           ELSE IF dist.value = -1 THEN Return(-1)
           ELSE Return(dist.value + 1)

\* A variant of get_child_distance that passes the distance found above the
\* child on as it is.
RECURSIVE get_child_distance_uncounted(_, _, _)
get_child_distance_uncounted(parent, child, calls) ==
  IF calls = 0 THEN NoReturn
  ELSE IF parent = child THEN Return(0)
  ELSE IF ~has_collector(child) \/ child = 0 THEN Return(-1)
  ELSE get_child_distance_uncounted(
         parent, get_collector_def(child)._parent_index, calls - 1)

RECURSIVE get_child_distance_rec(_, _, _)
get_child_distance_rec(parent, child, calls) ==
  IF calls = 0 THEN NoReturn
  ELSE IF parent = child THEN Return(0)
  ELSE IF ~has_collector(child) \/ child = 0 THEN Return(-1)
  ELSE LET dist == get_child_distance_rec(
                     parent, get_collector_def(child)._parent_index, calls - 1)
       IN  IF ~dist.returns THEN NoReturn
           ELSE IF dist.value = -1 THEN Return(-1)
           ELSE Return(dist.value + 1)

get_child_distance(parent, child) ==
  get_child_distance_rec(parent, child, CallBudget)

(***************************************************************************)
(* Construction.                                                           *)
(***************************************************************************)
Init ==
  /\ _is_alive = TRUE
  /\ _reader = TheReader
  /\ _collectors = <<>>
  /\ _threads = <<>>
  /\ aborted = FALSE
  /\ reader_closes = 0
  /\ close_calls = 0
  /\ accepted = <<>>
  /\ named = <<>>
  /\ initialized = FALSE
  /\ client_known = FALSE
  /\ bad_version = FALSE
  /\ observed = {}
  /\ dropped = {}
  /\ _readers = <<>>
  /\ nout = <<>>
  /\ pc = [t \in Callers |-> "idle"]
  /\ gtk_monitor = NewMonitor
  /\ deleted = <<>>
  /\ destructed = FALSE

(***************************************************************************)
(* close()                                                                 *)
(***************************************************************************)
\* A variant of close() that closes the reader whenever it is called.
close_unguarded ==
  /\ close_calls' = close_calls + 1
  /\ reader_closes' = reader_closes + 1
  /\ _reader' = NULL
  /\ _is_alive' = FALSE

\* A variant of close() that forgets to clear the liveness flag.
close_stays_alive ==
  /\ close_calls' = close_calls + 1
  /\ IF _is_alive /\ _reader # NULL
     THEN /\ reader_closes' = reader_closes + 1
          /\ _reader' = NULL
          /\ _is_alive' = _is_alive
     ELSE UNCHANGED <<reader_closes, _reader, _is_alive>>

\* A variant of close() that reopens a session it finds closed.
close_reopens ==
  /\ close_calls' = close_calls + 1
  /\ IF _is_alive /\ _reader # NULL
     THEN /\ reader_closes' = reader_closes + 1
          /\ _reader' = NULL
          /\ _is_alive' = FALSE
     ELSE /\ _is_alive' = TRUE
          /\ UNCHANGED <<reader_closes, _reader>>

\* What close() does to the client data.
close ==
  /\ close_calls' = close_calls + 1
  /\ IF _is_alive /\ _reader # NULL
     THEN /\ reader_closes' = reader_closes + 1
          /\ _reader' = NULL
          /\ _is_alive' = FALSE
     ELSE UNCHANGED <<reader_closes, _reader, _is_alive>>

Close ==
  /\ ~aborted
  /\ close_calls < MaxCloseCalls
  /\ close
  /\ UNCHANGED listenvars
  /\ UNCHANGED closevars
  /\ UNCHANGED monitorvars
  /\ UNCHANGED <<_collectors, _threads, aborted, accepted, named, sessvars>>

(***************************************************************************)
(* add_collector(def)                                                      *)
(***************************************************************************)
\* vec after "while (vec.size() <= index) vec.push_back(fill)" for index >= 0.
GrowTo(vec, index, fill) ==
  IF Len(vec) > index THEN vec
  ELSE vec \o [i \in 1 .. (index + 1 - Len(vec)) |-> fill]

\* vec after the same loop when index is negative: size() is unsigned, the
\* comparison converts index to a huge unsigned value, and the loop pushes
\* until the allocator gives up.
GrowUntilFull(vec, fill) ==
  IF Len(vec) >= MemSlots THEN vec
  ELSE vec \o [i \in 1 .. (MemSlots - Len(vec)) |-> fill]

\* A variant of add_collector that fills the slots it allocates on the way
\* to def's slot with def as well.
add_collector_fills_growth(collectors, def) ==
  IF ~(def._index < IndexLimit)
  THEN collectors
  ELSE IF def._index < 0
  THEN GrowUntilFull(collectors, NULL)
  ELSE [GrowTo(collectors, def._index, def) EXCEPT ![def._index + 1] = def]

\* The registry after add_collector(def) on collectors.
add_collector(collectors, def) ==
  IF ~(def._index < IndexLimit)
  THEN \* nassertv fails and returns.
       collectors
  ELSE IF def._index < 0
  THEN GrowUntilFull(collectors, NULL)
  ELSE [GrowTo(collectors, def._index, NULL) EXCEPT ![def._index + 1] = def]

\* Whether add_collector(def) ends in the allocator's exception instead of
\* returning.
add_collector_throws(def) ==
  def._index < IndexLimit /\ def._index < 0

\* The history of stored definitions after add_collector(def).
AcceptedAfter(def) ==
  IF def._index < IndexLimit /\ def._index >= 0
  THEN (def._index :> def) @@ accepted
  ELSE accepted

AddCollector(def) ==
  /\ ~aborted
  /\ _collectors' = add_collector(_collectors, def)
  /\ aborted' = add_collector_throws(def)
  /\ accepted' = AcceptedAfter(def)
  /\ UNCHANGED listenvars
  /\ UNCHANGED closevars
  /\ UNCHANGED monitorvars
  /\ UNCHANGED <<_is_alive, _reader, reader_closes, close_calls, _threads,
                 named, sessvars>>

(***************************************************************************)
(* Lookups of the thread table.                                            *)
(***************************************************************************)
\* A variant of has_thread that, like has_collector, asks whether the slot
\* holds anything: here, a PStatThreadData.
has_thread_by_data(index) ==
  /\ index >= 0
  /\ index < Len(_threads)
  /\ _threads[index + 1]._data # NULL

has_thread(index) ==
  /\ index >= 0
  /\ index < Len(_threads)
  /\ _threads[index + 1]._name # ""

get_thread_name(index) ==
  IF ~has_thread(index) THEN "Unknown"
  ELSE _threads[index + 1]._name

(***************************************************************************)
(* define_thread(thread_index, name = "")                                  *)
(***************************************************************************)
\* A variant of define_thread that stores the name it is given even when
\* that name is empty.
define_thread_always_names(threads, thread_index, name) ==
  IF ~(thread_index < IndexLimit) THEN threads
  ELSE IF thread_index < 0 THEN GrowUntilFull(threads, NewThread)
  ELSE LET grown == GrowTo(threads, thread_index, NewThread)
           slot == [grown[thread_index + 1] EXCEPT !._name = name]
       IN  [grown EXCEPT ![thread_index + 1] =
              IF slot._data = NULL THEN [slot EXCEPT !._data = NewThreadData]
              ELSE slot]

\* A variant of define_thread without the sanity check on the index.
define_thread_unchecked(threads, thread_index, name) ==
  IF thread_index < 0 THEN GrowUntilFull(threads, NewThread)
  ELSE LET grown == GrowTo(threads, thread_index, NewThread)
           old == grown[thread_index + 1]
           slot == IF name # "" THEN [old EXCEPT !._name = name] ELSE old
       IN  [grown EXCEPT ![thread_index + 1] =
              IF slot._data = NULL THEN [slot EXCEPT !._data = NewThreadData]
              ELSE slot]

\* A variant of define_thread that leaves the creation of the
\* PStatThreadData to someone else.
define_thread_no_data(threads, thread_index, name) ==
  IF ~(thread_index < IndexLimit) THEN threads
  ELSE IF thread_index < 0 THEN GrowUntilFull(threads, NewThread)
  ELSE LET grown == GrowTo(threads, thread_index, NewThread)
           old == grown[thread_index + 1]
       IN  [grown EXCEPT ![thread_index + 1] =
              IF name # "" THEN [old EXCEPT !._name = name] ELSE old]

\* A variant of define_thread that gives the thread a new PStatThreadData
\* on every definition.
define_thread_new_data(threads, thread_index, name) ==
  IF ~(thread_index < IndexLimit)
  THEN threads
  ELSE IF thread_index < 0
  THEN GrowUntilFull(threads, NewThread)
  ELSE LET grown == GrowTo(threads, thread_index, NewThread)
           old == grown[thread_index + 1]
           slot == IF name # "" THEN [old EXCEPT !._name = name] ELSE old
       IN  [grown EXCEPT ![thread_index + 1] =
              [slot EXCEPT !._data = NewThreadData]]

\* The thread table after define_thread(thread_index, name) on threads.
define_thread(threads, thread_index, name) ==
  IF ~(thread_index < IndexLimit)
  THEN \* nassertv fails and returns.
       threads
  ELSE IF thread_index < 0
  THEN \* The slot loop never ends, as in add_collector.
       GrowUntilFull(threads, NewThread)
  ELSE LET grown == GrowTo(threads, thread_index, NewThread)
           old == grown[thread_index + 1]
           slot == IF name # "" THEN [old EXCEPT !._name = name] ELSE old
       IN  [grown EXCEPT ![thread_index + 1] =
              IF slot._data = NULL THEN [slot EXCEPT !._data = NewThreadData]
              ELSE slot]

\* Whether define_thread(thread_index, ...) ends in the allocator's
\* exception instead of returning.
define_thread_throws(thread_index) ==
  thread_index < IndexLimit /\ thread_index < 0

\* The history of names after define_thread(thread_index, name).
NamedAfter(thread_index, name) ==
  IF thread_index < IndexLimit /\ thread_index >= 0 /\ name # ""
  THEN (thread_index :> name) @@ named
  ELSE named

DefineThread(thread_index, name) ==
  /\ ~aborted
  /\ _threads' = define_thread(_threads, thread_index, name)
  /\ aborted' = define_thread_throws(thread_index)
  /\ named' = NamedAfter(thread_index, name)
  /\ UNCHANGED listenvars
  /\ UNCHANGED closevars
  /\ UNCHANGED monitorvars
  /\ UNCHANGED <<_is_alive, _reader, reader_closes, close_calls, _collectors,
                 accepted, sessvars>>

(***************************************************************************)
(* get_thread_data(index)                                                  *)
(***************************************************************************)
\* The pointer get_thread_data returns, read in the state it leaves.
get_thread_data_result(threads, index) ==
  IF ~(index >= 0 /\ index < Len(threads)) THEN NULL
  ELSE threads[index + 1]._data

GetThreadData(index) ==
  /\ ~aborted
  /\ _threads' = define_thread(_threads, index, "")
  /\ aborted' = define_thread_throws(index)
  /\ named' = NamedAfter(index, "")
  /\ UNCHANGED listenvars
  /\ UNCHANGED closevars
  /\ UNCHANGED monitorvars
  /\ UNCHANGED <<_is_alive, _reader, reader_closes, close_calls, _collectors,
                 accepted, sessvars>>

(***************************************************************************)
(* PStatThreadData: the frames of one thread.  _frames[i + 1] is the slot  *)
(* of frame number _first_frame_number + i; NULL is a hole.  Times are     *)
(* whole numbers of half seconds.                                          *)
(***************************************************************************)
Abs(x) == IF x < 0 THEN 0 - x ELSE x

\* The slot of frame_number, counted from 1; in range or not.
SlotOf(data, frame_number) == frame_number - data._first_frame_number + 1

is_empty(data) ==
  \A i \in 1 .. Len(data._frames) : data._frames[i] = NULL

has_frame(data, frame_number) ==
  /\ SlotOf(data, frame_number) >= 1
  /\ SlotOf(data, frame_number) <= Len(data._frames)
  /\ data._frames[SlotOf(data, frame_number)] # NULL

get_frame(data, frame_number) ==
  IF has_frame(data, frame_number)
  THEN data._frames[SlotOf(data, frame_number)]
  ELSE _null_frame

\* The highest frame number at or below frame_number that holds a frame;
\* one below the range when there is none.
RECURSIVE FrameAtOrBelow(_, _)
FrameAtOrBelow(data, frame_number) ==
  IF frame_number < data._first_frame_number \/ has_frame(data, frame_number)
  THEN frame_number
  ELSE FrameAtOrBelow(data, frame_number - 1)

\* The lowest frame number at or above frame_number that holds a frame;
\* one above the range when there is none.
RECURSIVE FrameAtOrAbove(_, _)
FrameAtOrAbove(data, frame_number) ==
  IF frame_number >= data._first_frame_number + Len(data._frames)
     \/ has_frame(data, frame_number)
  THEN frame_number
  ELSE FrameAtOrAbove(data, frame_number + 1)

get_latest_frame_number(data) ==
  FrameAtOrBelow(data, data._first_frame_number + Len(data._frames) - 1)

get_oldest_frame_number(data) ==
  IF is_empty(data) THEN data._first_frame_number
  ELSE FrameAtOrAbove(data, data._first_frame_number)

\* The timestamp of a frame, 0 for the empty frame.
get_start(frame_data) == IF frame_data = _null_frame THEN 0 ELSE frame_data.time

get_latest_time(data) ==
  get_start(get_frame(data, get_latest_frame_number(data)))

get_oldest_time(data) ==
  get_start(get_frame(data, get_oldest_frame_number(data)))

get_latest_frame(data) == get_frame(data, get_latest_frame_number(data))

\* The frame numbers that hold a frame.
RetainedFrames(data) ==
  {n \in data._first_frame_number ..
           data._first_frame_number + Len(data._frames) - 1 :
     has_frame(data, n)}

set_history(data, time) == [data EXCEPT !._history = time]

get_history(data) == data._history

\* A variant of Evict that never drops anything.
Evict_nothing(data) == data

\* A variant of Evict that forgets to advance _first_frame_number.
RECURSIVE Evict_keeps_first_number(_)
Evict_keeps_first_number(data) ==
  IF ~is_empty(data)
     /\ get_latest_time(data) - get_oldest_time(data) > data._history
  THEN Evict_keeps_first_number([data EXCEPT !._frames = Tail(@)])
  ELSE data

\* Drop slots from the low end while the lowest frame retained is older
\* than the latest timestamp minus the history.
RECURSIVE Evict(_)
Evict(data) ==
  IF ~is_empty(data)
     /\ get_latest_time(data) - get_oldest_time(data) > data._history
  THEN Evict([data EXCEPT !._frames = Tail(@),
                          !._first_frame_number = @ + 1])
  ELSE data

\* A variant of record_new_frame whose range starts at the first frame
\* number it is given.
thread_data_record_new_frame_from_first(data, frame_number, frame_data) ==
  IF data._frames = <<>>
  THEN [data EXCEPT !._frames = <<frame_data>>,
                    !._first_frame_number = frame_number]
  ELSE IF frame_number < data._first_frame_number THEN Evict(data)
  ELSE LET at == frame_number - data._first_frame_number
           grown == GrowTo(data._frames, at, NULL)
       IN  Evict([data EXCEPT !._frames = [grown EXCEPT ![at + 1] = frame_data]])

\* A variant of record_new_frame that keeps the frame a slot already holds.
thread_data_record_new_frame_keeps_old(data, frame_number, frame_data) ==
  IF frame_number < data._first_frame_number \/ has_frame(data, frame_number)
  THEN Evict(data)
  ELSE LET at == frame_number - data._first_frame_number
           grown == GrowTo(data._frames, at, NULL)
       IN  Evict([data EXCEPT !._frames = [grown EXCEPT ![at + 1] = frame_data]])

\* The store with frame_data put in the slot of frame_number, the buffer
\* extended upward with holes as far as needed; nothing evicted yet.
Placed(data, frame_number, frame_data) ==
  LET at == frame_number - data._first_frame_number
      grown == GrowTo(data._frames, at, NULL)
  IN  [data EXCEPT !._frames = [grown EXCEPT ![at + 1] = frame_data]]

\* A variant of record_new_frame that extends the range downward for a frame
\* number below it.
thread_data_record_new_frame_extends_down(data, frame_number, frame_data) ==
  IF frame_number < data._first_frame_number
  THEN Evict([data EXCEPT
                !._frames =
                  <<frame_data>>
                    \o [i \in 1 .. data._first_frame_number - frame_number - 1
                          |-> NULL]
                    \o @,
                !._first_frame_number = frame_number])
  ELSE Evict(Placed(data, frame_number, frame_data))

\* PStatThreadData::record_new_frame(frame_number, frame_data)
thread_data_record_new_frame(data, frame_number, frame_data) ==
  IF frame_number < data._first_frame_number
  THEN \* Below the retained range: not accepted.
       Evict(data)
  ELSE Evict(Placed(data, frame_number, frame_data))

\* The slot the search starts at: the hint's when the hint is in range, the
\* last one otherwise.
ScanStart(data, hint) ==
  IF SlotOf(data, hint) >= 1 /\ SlotOf(data, hint) <= Len(data._frames)
  THEN SlotOf(data, hint)
  ELSE Len(data._frames)

\* The distance of the frame's timestamp from time.
TimeDistance(data, frame_number, time) ==
  Abs(get_frame(data, frame_number).time - time)

\* The frame number visited at step k of the scan that starts at slot
\* start, runs to the end of the buffer and wraps around to its beginning.
Visited(data, start, k) ==
  data._first_frame_number + ((start - 1 + k) % Len(data._frames))

\* A scan in which the first frame found at the smallest distance wins.
RECURSIVE ScanFirstFound(_, _, _, _, _)
ScanFirstFound(data, time, start, k, best) ==
  IF k >= Len(data._frames) THEN best
  ELSE LET n == Visited(data, start, k)
           better ==
             /\ has_frame(data, n)
             /\ \/ ~has_frame(data, best)
                \/ TimeDistance(data, n, time) < TimeDistance(data, best, time)
       IN  ScanFirstFound(data, time, start, k + 1, IF better THEN n ELSE best)

\* A variant of get_frame_number_at_time that stops caring about the order
\* of the frames it visits.
get_frame_number_at_time_first_found(data, time, hint) ==
  ScanFirstFound(data, time, ScanStart(data, hint), 0,
                 data._first_frame_number - 1)

\* The scan over all slots from slot start on: best is the closest frame
\* seen so far, the lower frame number among equally close ones.
RECURSIVE ScanClosest(_, _, _, _, _)
ScanClosest(data, time, start, k, best) ==
  IF k >= Len(data._frames) THEN best
  ELSE LET n == Visited(data, start, k)
           better ==
             /\ has_frame(data, n)
             /\ \/ ~has_frame(data, best)
                \/ TimeDistance(data, n, time) < TimeDistance(data, best, time)
                \/ /\ TimeDistance(data, n, time) = TimeDistance(data, best, time)
                   /\ n < best
       IN  ScanClosest(data, time, start, k + 1, IF better THEN n ELSE best)

\* The number of the frame whose timestamp is closest to time; one below
\* the range when the store is empty.
get_frame_number_at_time(data, time, hint) ==
  ScanClosest(data, time, ScanStart(data, hint), 0,
              data._first_frame_number - 1)

get_frame_at_time(data, time) ==
  get_frame(data, get_frame_number_at_time(data, time, -1))

\* A rate of num frames in den half seconds; no frame at all is 0 / 1.
Rate(num, den) == [num |-> num, den |-> den]

\* The frames whose timestamp lies within time of the latest one.
Qualifying(data, time) ==
  {n \in RetainedFrames(data) :
     Abs(get_latest_time(data) - get_frame(data, n).time) <= time}

\* The largest and the smallest member of a non-empty set of numbers.
SetMax(S) == CHOOSE x \in S : \A y \in S : y <= x
SetMin(S) == CHOOSE x \in S : \A y \in S : x <= y

\* A variant of get_frame_rate that divides the number of frames, not of
\* intervals, by the time they span.
get_frame_rate_counts_frames(data, time) ==
  LET times == {get_frame(data, n).time : n \in Qualifying(data, time)} IN
  IF Cardinality(Qualifying(data, time)) < 2 \/ SetMax(times) = SetMin(times)
  THEN Rate(0, 1)
  ELSE Rate(Cardinality(Qualifying(data, time)), SetMax(times) - SetMin(times))

get_frame_rate(data, time) ==
  LET times == {get_frame(data, n).time : n \in Qualifying(data, time)} IN
  IF Cardinality(Qualifying(data, time)) < 2 \/ SetMax(times) = SetMin(times)
  THEN Rate(0, 1)
  ELSE Rate(Cardinality(Qualifying(data, time)) - 1,
            SetMax(times) - SetMin(times))

(***************************************************************************)
(* PStatClientData::record_new_frame(thread_index, frame_number, data)     *)
(***************************************************************************)
record_new_frame(threads, thread_index, frame_number, frame_data) ==
  LET defined == define_thread(threads, thread_index, "") IN
  IF define_thread_throws(thread_index) THEN defined
  ELSE IF ~(thread_index >= 0 /\ thread_index < Len(defined))
  THEN \* nassertv fails and returns.
       defined
  ELSE [defined EXCEPT ![thread_index + 1]._data =
          thread_data_record_new_frame(@, frame_number, frame_data)]

RecordNewFrame(thread_index, frame_number, frame_data) ==
  /\ ~aborted
  /\ _threads' =
       record_new_frame(_threads, thread_index, frame_number, frame_data)
  /\ aborted' = define_thread_throws(thread_index)
  /\ named' = NamedAfter(thread_index, "")
  /\ UNCHANGED listenvars
  /\ UNCHANGED closevars
  /\ UNCHANGED monitorvars
  /\ UNCHANGED <<_is_alive, _reader, reader_closes, close_calls, _collectors,
                 accepted, sessvars>>

\* get_thread_data(thread_index)->set_history(time)
SetHistory(thread_index, time) ==
  /\ ~aborted
  /\ ~define_thread_throws(thread_index)
  /\ get_thread_data_result(define_thread(_threads, thread_index, ""),
                            thread_index) # NULL
  /\ _threads' = [define_thread(_threads, thread_index, "")
                    EXCEPT ![thread_index + 1]._data = set_history(@, time)]
  /\ UNCHANGED listenvars
  /\ UNCHANGED closevars
  /\ UNCHANGED monitorvars
  /\ UNCHANGED <<_is_alive, _reader, reader_closes, close_calls, _collectors,
                 aborted, accepted, named, sessvars>>

(***************************************************************************)
(* The collector registry driven by any sequence of definitions and close. *)
(***************************************************************************)
NextRegistry ==
  \/ \E def \in CollectorDefs : AddCollector(def)
  \/ Close

SpecRegistry == Init /\ [][NextRegistry]_vars

(***************************************************************************)
(* The collector registry driven by definitions with valid indices alone,  *)
(* in any order and any number of times.                                   *)
(***************************************************************************)
ValidDefs ==
  [_index : 0 .. MaxCollector, _name : CollectorNames, _parent_index : {0, 1}]

NextDefinitions == \E def \in ValidDefs : AddCollector(def)

SpecDefinitions == Init /\ [][NextDefinitions]_vars

(***************************************************************************)
(* The thread table driven by any sequence of definitions, reads of a      *)
(* thread's data, frames and close.  A frame's timestamp is the timestamp  *)
(* of its number here: the frame stores' own behaviour is not the subject. *)
(***************************************************************************)
NextThreads ==
  \/ \E i \in ThreadIndices, name \in ThreadNames : DefineThread(i, name)
  \/ \E i \in ThreadIndices : GetThreadData(i)
  \/ \E i \in ThreadIndices, n \in EndFrameNumbers :
       RecordNewFrame(i, n, [time |-> n])
  \/ Close

SpecThreads == Init /\ [][NextThreads]_vars

(***************************************************************************)
(* The frame store of thread 0 driven by any sequence of frames (numbers   *)
(* and timestamps in any order, repeated or skipped) and changes of the    *)
(* retention horizon.                                                      *)
(***************************************************************************)
NextFrames ==
  \/ \E n \in FrameNumbers, frame_data \in FrameDatas :
       RecordNewFrame(0, n, frame_data)
  \/ \E time \in Histories : SetHistory(0, time)

SpecFrames == Init /\ [][NextFrames]_vars

\* The frame store of thread 0, as get_thread_data(0) returns it.
Store == get_thread_data_result(define_thread(_threads, 0, ""), 0)

(***************************************************************************)
(* PStatListener::connection_opened(rendezvous, address, new_connection)   *)
(***************************************************************************)
\* The PT(Connection) a reader holds on connection.
PT(connection) == [connection |-> connection]

\* new PStatReader(_manager, monitor): no connection yet.
NewReader(monitor) == [_monitor |-> monitor, _tcp_connection |-> NULL]

\* A variant of add_reader that hands the reader its connection while it
\* registers it.
add_reader_attached(readers, connection, reader) ==
  (connection :> [reader EXCEPT !._tcp_connection = PT(connection)])
    @@ readers

\* PStatServer::add_reader(connection, reader)
add_reader(readers, connection, reader) == (connection :> reader) @@ readers

\* PStatReader::set_tcp_connection(connection)
set_tcp_connection(reader, connection) ==
  [reader EXCEPT !._tcp_connection = PT(connection)]

\* A variant of connection_opened that goes on without a monitor.
connection_opened_without_monitor(readers, new_connection, monitor) ==
  [add_reader(readers, new_connection, NewReader(monitor))
     EXCEPT ![new_connection] = set_tcp_connection(@, new_connection)]

\* The manager's readers after connection_opened, make_monitor() having
\* returned monitor.
connection_opened(readers, new_connection, monitor) ==
  IF monitor = NULL THEN readers
  ELSE [add_reader(readers, new_connection, NewReader(monitor))
          EXCEPT ![new_connection] = set_tcp_connection(@, new_connection)]

\* What connection_opened writes to nout.
connection_opened_says(address, monitor) ==
  IF monitor = NULL THEN [text |-> "Couldn't create monitor!"]
  ELSE [text |-> "Got new connection from", ip |-> address]

\* The connection the listener is handed next: one per call.
NewConnection == Len(nout) + 1

\* What make_monitor() may return for a connection: nothing, or a monitor
\* of its own.
MonitorsFor(connection) == {NULL, [monitor |-> connection]}

ConnectionOpened(address, monitor) ==
  /\ Len(nout) < MaxConnections
  /\ _readers' = connection_opened(_readers, NewConnection, monitor)
  /\ nout' = Append(nout, connection_opened_says(address, monitor))
  /\ UNCHANGED closevars
  /\ UNCHANGED monitorvars
  /\ UNCHANGED <<_is_alive, _reader, reader_closes, close_calls, _collectors,
                 _threads, aborted, accepted, named, sessvars>>

(***************************************************************************)
(* The listener handed one connection after another.                       *)
(***************************************************************************)
NextListener ==
  \E address \in Addresses, monitor \in MonitorsFor(NewConnection) :
    ConnectionOpened(address, monitor)

SpecListener == Init /\ [][NextListener]_vars

(***************************************************************************)
(* connection_opened statement by statement: the manager holds the reader  *)
(* from add_reader on, the reader holds the connection from                *)
(* set_tcp_connection on.                                                  *)
(***************************************************************************)
\* The connections whose reader is registered and has no connection yet.
Pending == {c \in DOMAIN _readers : _readers[c]._tcp_connection = NULL}

\* make_monitor() returned a monitor: the message, new PStatReader and
\* _manager->add_reader(new_connection, reader).
ConnectionRegister(address, monitor) ==
  /\ Len(nout) < MaxConnections
  /\ Pending = {}
  /\ monitor # NULL
  /\ _readers' = add_reader(_readers, NewConnection, NewReader(monitor))
  /\ nout' = Append(nout, connection_opened_says(address, monitor))
  /\ UNCHANGED closevars
  /\ UNCHANGED monitorvars
  /\ UNCHANGED <<_is_alive, _reader, reader_closes, close_calls, _collectors,
                 _threads, aborted, accepted, named, sessvars>>

\* reader->set_tcp_connection(new_connection)
ConnectionAttach(connection) ==
  /\ connection \in Pending
  /\ _readers' = [_readers EXCEPT
                    ![connection] = set_tcp_connection(@, connection)]
  /\ UNCHANGED nout
  /\ UNCHANGED closevars
  /\ UNCHANGED monitorvars
  /\ UNCHANGED <<_is_alive, _reader, reader_closes, close_calls, _collectors,
                 _threads, aborted, accepted, named, sessvars>>

\* make_monitor() returned NULL: the whole call is the message.
ConnectionDeclined(address) ==
  /\ Pending = {}
  /\ ConnectionOpened(address, NULL)

NextListenerSteps ==
  \/ \E address \in Addresses :
       ConnectionRegister(address, [monitor |-> NewConnection])
  \/ \E connection \in 1 .. MaxConnections : ConnectionAttach(connection)
  \/ \E address \in Addresses : ConnectionDeclined(address)

SpecListenerSteps == Init /\ [][NextListenerSteps]_vars

(***************************************************************************)
(* close() run by two threads: no lock is taken, so the test, the call of  *)
(* the reader, and the two assignments of one call interleave with those   *)
(* of the other.                                                           *)
(***************************************************************************)
\* if (_is_alive && _reader != NULL)
CloseTest(t) ==
  /\ ~aborted
  /\ pc[t] = "idle"
  /\ pc' = [pc EXCEPT ![t] = IF _is_alive /\ _reader # NULL
                              THEN "close_reader" ELSE "done"]
  /\ close_calls' = close_calls + 1
  /\ UNCHANGED <<_is_alive, _reader, reader_closes, _collectors, _threads,
                 aborted, accepted, named, sessvars, listenvars,
                 monitorvars>>

\* _reader->close().  When the other thread has cleared _reader since the
\* test, the call goes through a null pointer, or through the pointer read
\* at the test: the process dies, or the reader is closed again.
CloseReader(t) ==
  /\ ~aborted
  /\ pc[t] = "close_reader"
  /\ pc' = [pc EXCEPT ![t] = "clear_reader"]
  /\ \/ /\ reader_closes' = reader_closes + 1
        /\ UNCHANGED aborted
     \/ /\ _reader = NULL
        /\ aborted' = TRUE
        /\ UNCHANGED reader_closes
  /\ UNCHANGED <<_is_alive, _reader, close_calls, _collectors, _threads,
                 accepted, named, sessvars, listenvars,
                 monitorvars>>

\* _reader = NULL
CloseClearReader(t) ==
  /\ ~aborted
  /\ pc[t] = "clear_reader"
  /\ pc' = [pc EXCEPT ![t] = "clear_alive"]
  /\ _reader' = NULL
  /\ UNCHANGED <<_is_alive, reader_closes, close_calls, _collectors, _threads,
                 aborted, accepted, named, sessvars, listenvars,
                 monitorvars>>

\* _is_alive = false
CloseClearAlive(t) ==
  /\ ~aborted
  /\ pc[t] = "clear_alive"
  /\ pc' = [pc EXCEPT ![t] = "done"]
  /\ _is_alive' = FALSE
  /\ UNCHANGED <<_reader, reader_closes, close_calls, _collectors, _threads,
                 aborted, accepted, named, sessvars, listenvars,
                 monitorvars>>

\* The two calls of close() on a session that is receiving thread
\* definitions and frames.
NextCloseThreaded ==
  \/ \E t \in Callers : CloseTest(t)
  \/ \E t \in Callers : CloseReader(t)
  \/ \E t \in Callers : CloseClearReader(t)
  \/ \E t \in Callers : CloseClearAlive(t)
  \/ \E i \in 0 .. MaxThread, name \in {"", "Main"} : DefineThread(i, name)

SpecCloseThreaded == Init /\ [][NextCloseThreaded]_vars

(***************************************************************************)
(* The whole client data driven through its public interface.              *)
(***************************************************************************)
\* Well-formed definitions of the first collectors below the root.
PlainDefs == [_index : {0, 1}, _name : {"B"}, _parent_index : {0}]

Next ==
  \/ \E def \in PlainDefs : AddCollector(def)
  \/ \E i \in 0 .. MaxThread, name \in {"", "Main"} : DefineThread(i, name)
  \/ \E i \in 0 .. MaxThread : GetThreadData(i)
  \/ \E i \in 0 .. MaxThread, n \in EndFrameNumbers :
       RecordNewFrame(i, n, [time |-> n])
  \/ Close

Spec == Init /\ [][Next]_vars

(***************************************************************************)
(* The session: the reader applies the decoder's events to the client data *)
(* and notifies the monitor after each one it applies.                     *)
(***************************************************************************)
SessionState ==
  IF ~_is_alive THEN "Closed"
  ELSE IF client_known THEN "Active"
  ELSE IF initialized THEN "Handshaking"
  ELSE "Accepted"

\* The history of late events after one of this kind is not applied.
DroppedAfter(kind) ==
  IF SessionState = "Closed" THEN dropped \cup {kind} ELSE dropped

\* The bootstrap completes: the monitor has its client data.
SessInitialized ==
  /\ ~aborted
  /\ SessionState = "Accepted"
  /\ initialized' = TRUE
  /\ observed' = observed \cup {"initialized"}
  /\ UNCHANGED listenvars
  /\ UNCHANGED closevars
  /\ UNCHANGED monitorvars
  /\ UNCHANGED <<_is_alive, _reader, reader_closes, close_calls, _collectors,
                 _threads, aborted, accepted, named, client_known, bad_version,
                 dropped>>

\* hello(...) with a version the server understands.
EvHello ==
  /\ ~aborted
  /\ IF SessionState = "Handshaking"
     THEN /\ client_known' = TRUE
          /\ observed' = observed \cup {"hello"}
          /\ UNCHANGED dropped
     ELSE /\ dropped' = DroppedAfter("hello")
          /\ UNCHANGED <<client_known, observed>>
  /\ UNCHANGED listenvars
  /\ UNCHANGED closevars
  /\ UNCHANGED monitorvars
  /\ UNCHANGED <<_is_alive, _reader, reader_closes, close_calls, _collectors,
                 _threads, aborted, accepted, named, initialized, bad_version>>

\* bad_version(...): the monitor is told, and the session closes.
EvBadVersion ==
  /\ ~aborted
  /\ close_calls < MaxCloseCalls
  /\ IF SessionState = "Handshaking"
     THEN /\ bad_version' = TRUE
          /\ observed' = observed \cup {"bad_version"}
          /\ close
          /\ UNCHANGED dropped
     ELSE /\ dropped' = DroppedAfter("bad_version")
          /\ UNCHANGED <<bad_version, observed, _is_alive, _reader,
                         reader_closes, close_calls>>
  /\ UNCHANGED listenvars
  /\ UNCHANGED closevars
  /\ UNCHANGED monitorvars
  /\ UNCHANGED <<_collectors, _threads, aborted, accepted, named,
                 initialized, client_known>>

\* collector_def(def)
EvCollectorDef(def) ==
  /\ ~aborted
  /\ IF SessionState = "Active"
     THEN /\ _collectors' = add_collector(_collectors, def)
          /\ aborted' = add_collector_throws(def)
          /\ accepted' = AcceptedAfter(def)
          /\ observed' = observed \cup {"new_collector"}
          /\ UNCHANGED dropped
     ELSE /\ dropped' = DroppedAfter("collector_def")
          /\ UNCHANGED <<_collectors, aborted, accepted, observed>>
  /\ UNCHANGED listenvars
  /\ UNCHANGED closevars
  /\ UNCHANGED monitorvars
  /\ UNCHANGED <<_is_alive, _reader, reader_closes, close_calls, _threads,
                 named, initialized, client_known, bad_version>>

\* thread_def(id, name)
EvThreadDef(thread_index, name) ==
  /\ ~aborted
  /\ IF SessionState = "Active"
     THEN /\ _threads' = define_thread(_threads, thread_index, name)
          /\ aborted' = define_thread_throws(thread_index)
          /\ named' = NamedAfter(thread_index, name)
          /\ observed' = observed \cup {"new_thread"}
          /\ UNCHANGED dropped
     ELSE /\ dropped' = DroppedAfter("thread_def")
          /\ UNCHANGED <<_threads, aborted, named, observed>>
  /\ UNCHANGED listenvars
  /\ UNCHANGED closevars
  /\ UNCHANGED monitorvars
  /\ UNCHANGED <<_is_alive, _reader, reader_closes, close_calls, _collectors,
                 accepted, initialized, client_known, bad_version>>

\* frame_data(thread_id, frame_number, data)
EvFrameData(thread_index, frame_number, frame_data) ==
  /\ ~aborted
  /\ IF SessionState = "Active"
     THEN /\ _threads' = record_new_frame(_threads, thread_index,
                                          frame_number, frame_data)
          /\ aborted' = define_thread_throws(thread_index)
          /\ named' = NamedAfter(thread_index, "")
          /\ observed' = observed \cup {"new_data"}
          /\ UNCHANGED dropped
     ELSE /\ dropped' = DroppedAfter("frame_data")
          /\ UNCHANGED <<_threads, aborted, named, observed>>
  /\ UNCHANGED listenvars
  /\ UNCHANGED closevars
  /\ UNCHANGED monitorvars
  /\ UNCHANGED <<_is_alive, _reader, reader_closes, close_calls, _collectors,
                 accepted, initialized, client_known, bad_version>>

\* disconnected(): the monitor is told, and the session closes.
EvDisconnected ==
  /\ ~aborted
  /\ close_calls < MaxCloseCalls
  /\ IF SessionState = "Active"
     THEN /\ observed' = observed \cup {"lost_connection"}
          /\ close
          /\ UNCHANGED dropped
     ELSE /\ dropped' = DroppedAfter("disconnected")
          /\ UNCHANGED <<observed, _is_alive, _reader, reader_closes,
                         close_calls>>
  /\ UNCHANGED listenvars
  /\ UNCHANGED closevars
  /\ UNCHANGED monitorvars
  /\ UNCHANGED <<_collectors, _threads, aborted, accepted, named,
                 initialized, client_known, bad_version>>

NextSession ==
  \/ SessInitialized
  \/ EvHello
  \/ EvBadVersion
  \/ \E def \in PlainDefs : EvCollectorDef(def)
  \/ EvThreadDef(0, "Main")
  \/ \E n \in EndFrameNumbers : EvFrameData(0, n, [time |-> n])
  \/ EvDisconnected
  \/ Close

SpecSession == Init /\ [][NextSession]_vars

(***************************************************************************)
(* GtkStatsMonitor (pandatool/src/gtk-stats/gtkStatsMonitor.cxx).  The      *)
(* operators take the monitor's fields as the record m and give the fields *)
(* after the call.  A graph is the record of what it was constructed with  *)
(* and of what the monitor last told it.                                   *)
(***************************************************************************)
\* The time-unit masks the Options menu sends.
UnitMasks == {"GBU_ms", "GBU_hz"}

\* Two of the speeds the Speed menu sends.
ScrollSpeeds == {1, 3}

\* What update_status_bar reads from the client data: NoFrame when there is
\* no client data, no data for thread 0 or no frame in it; otherwise the net
\* value in the latest frame of each top-level collector that is defined
\* and has a level, in the order of the top-level list.
NoFrame == [empty |-> TRUE]
LevelCollectors == 1 .. MaxLevelCollector
LatestFrames == [LevelCollectors -> {0, 1}]

\* GtkStatsGraph::set_time_units, set_scroll_speed, set_pause
graph_set_time_units(graph, unit_mask) ==
  [graph EXCEPT !.time_units = unit_mask]

graph_set_scroll_speed(graph, scroll_speed) ==
  [graph EXCEPT !.scroll_speed = scroll_speed]

graph_set_pause(graph, pause) == [graph EXCEPT !.pause = pause]

\* _graphs.insert(graph)
add_graph(m, graph, pointee) ==
  [m EXCEPT !._graphs = (graph :> pointee) @@ @]

open_strip_chart(m, graph, collector_index) ==
  [add_graph(m, graph, NewGraph("strip_chart", collector_index))
     EXCEPT !._graphs[graph] =
       graph_set_pause(
         graph_set_scroll_speed(
           graph_set_time_units(@, m._time_units), m._scroll_speed),
         m._pause)]

open_piano_roll(m, graph) ==
  [add_graph(m, graph, NewGraph("piano_roll", 0))
     EXCEPT !._graphs[graph] =
       graph_set_pause(
         graph_set_scroll_speed(
           graph_set_time_units(@, m._time_units), m._scroll_speed),
         m._pause)]

open_flame_graph(m, graph, collector_index) ==
  [add_graph(m, graph, NewGraph("flame_graph", collector_index))
     EXCEPT !._graphs[graph] =
       graph_set_pause(
         graph_set_scroll_speed(
           graph_set_time_units(@, m._time_units), m._scroll_speed),
         m._pause)]

open_timeline(m, graph) ==
  [add_graph(m, graph, NewGraph("timeline", 0))
     EXCEPT !._graphs[graph] =
       graph_set_pause(
         graph_set_scroll_speed(
           graph_set_time_units(@, m._time_units), m._scroll_speed),
         m._pause)]

set_time_units(m, unit_mask) ==
  [m EXCEPT !._time_units = unit_mask,
            !._graphs = [g \in DOMAIN @ |->
                           graph_set_time_units(@[g], unit_mask)]]

\* A variant of set_scroll_speed that tells no graph.
set_scroll_speed_untold(m, scroll_speed) ==
  [m EXCEPT !._scroll_speed = scroll_speed]

set_scroll_speed(m, scroll_speed) ==
  [m EXCEPT !._scroll_speed = scroll_speed,
            !._graphs = [g \in DOMAIN @ |->
                           graph_set_scroll_speed(@[g], scroll_speed)]]

set_pause(m, pause) ==
  [m EXCEPT !._pause = pause,
            !._graphs = [g \in DOMAIN @ |-> graph_set_pause(@[g], pause)]]

remove_graph(m, graph) ==
  IF graph \in DOMAIN m._graphs
  THEN [m EXCEPT !._graphs = [g \in DOMAIN @ \ {graph} |-> @[g]]]
  ELSE m

\* The objects remove_graph(graph) deletes.
remove_graph_deletes(m, graph) ==
  IF graph \in DOMAIN m._graphs
  THEN {[kind |-> "graph", id |-> graph]}
  ELSE {}

\* new_thread(thread_index): a new chart menu at the end of _chart_menus.
new_thread(m, chart_menu, thread_index) ==
  [m EXCEPT !._chart_menus =
     Append(@, [chart_menu |-> chart_menu, thread_index |-> thread_index])]

\* The loop of update_status_bar over the top-level collectors from tc on:
\* li is the index of the next label to reuse, collectors the list built so
\* far.
RECURSIVE update_status_bar_loop(_, _, _, _, _)
update_status_bar_loop(m, frame, tc, li, collectors) ==
  IF tc > MaxLevelCollector
  THEN [m EXCEPT !._status_bar_collectors = collectors]
  ELSE IF frame[tc] = 0
          /\ \A i \in DOMAIN m._status_bar_collectors :
               m._status_bar_collectors[i] # tc
  THEN \* Not included unless it was included before.
       update_status_bar_loop(m, frame, tc + 1, li, collectors)
  ELSE IF li < Len(m._status_bar_labels)
  THEN update_status_bar_loop(
         [m EXCEPT !._status_bar_labels[li + 1] = LabelText(tc, frame[tc])],
         frame, tc + 1, li + 1, Append(collectors, tc))
  ELSE update_status_bar_loop(
         [m EXCEPT !._status_bar_labels =
            Append(@, LabelText(tc, frame[tc]))],
         frame, tc + 1, li, Append(collectors, tc))

update_status_bar(m, frame) ==
  IF frame = NoFrame THEN m
  ELSE update_status_bar_loop(
         IF m._status_bar_labels = <<>>
         THEN [m EXCEPT !._status_bar_labels = <<EmptyLabel>>]
         ELSE m,
         frame, 1, 1, <<0>>)

\* create_window(): the menus' setup sets the time units, the scroll speed
\* and the pause, and the status bar is filled.
create_window(m, frame) ==
  IF m._window # NULL THEN m
  ELSE update_status_bar(
         set_pause(
           set_scroll_speed(
             set_time_units([m EXCEPT !._window = TheWindow], "GBU_ms"), 3),
           FALSE),
         frame)

got_hello(m, graph, frame) ==
  open_strip_chart(create_window(m, frame), graph, 0)

new_data(m, thread_index, frame) ==
  IF thread_index = 0 THEN update_status_bar(m, frame) ELSE m

\* status_bar_button_event with a double click of button 1 on the child at
\* index.
status_bar_button_event(m, graph, index) ==
  IF index < 0 \/ index >= Len(m._status_bar_labels) THEN m
  ELSE open_strip_chart(m, graph, m._status_bar_collectors[index + 1])

\* A variant of shutdown() that keeps the window pointer after it has
\* destroyed the window.
shutdown_keeps_window(m) == [m EXCEPT !._graphs = <<>>, !._chart_menus = <<>>]

shutdown(m) ==
  [m EXCEPT !._graphs = <<>>, !._chart_menus = <<>>, !._window = NULL]

\* The objects shutdown() deletes.
shutdown_deletes(m) ==
  {[kind |-> "graph", id |-> g] : g \in DOMAIN m._graphs}
    \cup {[kind |-> "chart_menu", id |-> m._chart_menus[i].chart_menu] :
            i \in DOMAIN m._chart_menus}
    \cup (IF m._window # NULL THEN {m._window} ELSE {})

\* deleted after one more deletion of every object in objects.
DeletedAfter(objects) ==
  [o \in DOMAIN deleted \cup objects |->
     (IF o \in DOMAIN deleted THEN deleted[o] ELSE 0)
       + (IF o \in objects THEN 1 ELSE 0)]

\* The pointer the next new graph gets: one no graph has had.
NewGraphPointer ==
  Cardinality(DOMAIN gtk_monitor._graphs
                \cup {o.id : o \in {d \in DOMAIN deleted : d.kind = "graph"}})
    + 1

\* The connection has been reported lost.
Lost == \E i \in DOMAIN nout : nout[i].text = "Lost connection to"

\* The monitor receives the session's events and the user's.
Running == ~destructed /\ ~Lost

GotHello(frame) ==
  /\ Running
  /\ gtk_monitor._window = NULL
  /\ NewGraphPointer <= MaxGraphs
  /\ gtk_monitor' = got_hello(gtk_monitor, NewGraphPointer, frame)
  /\ UNCHANGED <<deleted, destructed, clientvars, sessvars, listenvars,
                 closevars>>

MonitorNewThread(thread_index) ==
  /\ Running
  /\ Len(gtk_monitor._chart_menus) <= MaxThread
  /\ gtk_monitor' =
       new_thread(gtk_monitor, Len(gtk_monitor._chart_menus) + 1, thread_index)
  /\ UNCHANGED <<deleted, destructed, clientvars, sessvars, listenvars,
                 closevars>>

\* new_data after the hello: _status_bar exists from create_window on.
NewData(thread_index, frame) ==
  /\ Running
  /\ gtk_monitor._window # NULL
  /\ gtk_monitor' = new_data(gtk_monitor, thread_index, frame)
  /\ UNCHANGED <<deleted, destructed, clientvars, sessvars, listenvars,
                 closevars>>

\* menu_activate: the chart the menu item stands for is opened.
OpenStripChart(collector_index) ==
  /\ Running
  /\ gtk_monitor._window # NULL
  /\ NewGraphPointer <= MaxGraphs
  /\ gtk_monitor' = open_strip_chart(gtk_monitor, NewGraphPointer, collector_index)
  /\ UNCHANGED <<deleted, destructed, clientvars, sessvars, listenvars,
                 closevars>>

OpenPianoRoll ==
  /\ Running
  /\ gtk_monitor._window # NULL
  /\ NewGraphPointer <= MaxGraphs
  /\ gtk_monitor' = open_piano_roll(gtk_monitor, NewGraphPointer)
  /\ UNCHANGED <<deleted, destructed, clientvars, sessvars, listenvars,
                 closevars>>

OpenFlameGraph(collector_index) ==
  /\ Running
  /\ gtk_monitor._window # NULL
  /\ NewGraphPointer <= MaxGraphs
  /\ gtk_monitor' = open_flame_graph(gtk_monitor, NewGraphPointer, collector_index)
  /\ UNCHANGED <<deleted, destructed, clientvars, sessvars, listenvars,
                 closevars>>

OpenTimeline ==
  /\ Running
  /\ gtk_monitor._window # NULL
  /\ NewGraphPointer <= MaxGraphs
  /\ gtk_monitor' = open_timeline(gtk_monitor, NewGraphPointer)
  /\ UNCHANGED <<deleted, destructed, clientvars, sessvars, listenvars,
                 closevars>>

SetTimeUnits(unit_mask) ==
  /\ Running
  /\ gtk_monitor._window # NULL
  /\ gtk_monitor' = set_time_units(gtk_monitor, unit_mask)
  /\ UNCHANGED <<deleted, destructed, clientvars, sessvars, listenvars,
                 closevars>>

SetScrollSpeed(scroll_speed) ==
  /\ Running
  /\ gtk_monitor._window # NULL
  /\ gtk_monitor' = set_scroll_speed(gtk_monitor, scroll_speed)
  /\ UNCHANGED <<deleted, destructed, clientvars, sessvars, listenvars,
                 closevars>>

SetPause(pause) ==
  /\ Running
  /\ gtk_monitor._window # NULL
  /\ gtk_monitor' = set_pause(gtk_monitor, pause)
  /\ UNCHANGED <<deleted, destructed, clientvars, sessvars, listenvars,
                 closevars>>

\* A graph's window is closed: the graph asks the monitor to remove it.
RemoveGraph(graph) ==
  /\ Running
  /\ gtk_monitor' = remove_graph(gtk_monitor, graph)
  /\ deleted' = DeletedAfter(remove_graph_deletes(gtk_monitor, graph))
  /\ UNCHANGED <<destructed, clientvars, sessvars, listenvars, closevars>>

StatusBarButtonEvent(index) ==
  /\ Running
  /\ gtk_monitor._window # NULL
  /\ NewGraphPointer <= MaxGraphs
  /\ gtk_monitor' = status_bar_button_event(gtk_monitor, NewGraphPointer, index)
  /\ UNCHANGED <<deleted, destructed, clientvars, sessvars, listenvars,
                 closevars>>

LostConnection ==
  /\ ~destructed
  /\ Len(nout) < MaxCloseCalls
  /\ nout' = Append(nout, [text |-> "Lost connection to"])
  /\ gtk_monitor' = shutdown(gtk_monitor)
  /\ deleted' = DeletedAfter(shutdown_deletes(gtk_monitor))
  /\ UNCHANGED <<destructed, _readers, clientvars, sessvars, closevars>>

\* ~GtkStatsMonitor()
Destructor ==
  /\ ~destructed
  /\ destructed' = TRUE
  /\ gtk_monitor' = shutdown(gtk_monitor)
  /\ deleted' = DeletedAfter(shutdown_deletes(gtk_monitor))
  /\ UNCHANGED <<clientvars, sessvars, listenvars, closevars>>

(***************************************************************************)
(* The monitor from the hello to its destruction: threads are announced,   *)
(* the user opens and closes graphs and changes the settings, the          *)
(* connection is lost.                                                     *)
(***************************************************************************)
NextMonitor ==
  \/ GotHello(NoFrame)
  \/ \E thread_index \in 0 .. MaxThread : MonitorNewThread(thread_index)
  \/ OpenStripChart(0)
  \/ OpenPianoRoll
  \/ OpenFlameGraph(0)
  \/ OpenTimeline
  \/ \E unit_mask \in UnitMasks : SetTimeUnits(unit_mask)
  \/ \E scroll_speed \in ScrollSpeeds : SetScrollSpeed(scroll_speed)
  \/ \E pause \in BOOLEAN : SetPause(pause)
  \/ \E graph \in 1 .. MaxGraphs : RemoveGraph(graph)
  \/ LostConnection
  \/ Destructor

SpecMonitor == Init /\ [][NextMonitor]_vars

(***************************************************************************)
(* The status bar: frames of thread 0 arrive and the user double-clicks    *)
(* its labels.                                                             *)
(***************************************************************************)
NextStatusBar ==
  \/ \E frame \in LatestFrames \cup {NoFrame} : GotHello(frame)
  \/ \E thread_index \in 0 .. MaxThread, frame \in LatestFrames \cup {NoFrame} :
       NewData(thread_index, frame)
  \/ \E index \in 0 .. MaxLevelCollector + 1 : StatusBarButtonEvent(index)

SpecStatusBar == Init /\ [][NextStatusBar]_vars

(***************************************************************************)
(* Properties of the collector registry.                                   *)
(***************************************************************************)

\* C4: for every index (negative, beyond the allocated range, in range but
\* never defined, or defined) has_collector is true exactly when a
\* definition for that index has been stored, and get_collector_def returns
\* the stored definition then and the sentinel (-1, "Unknown") otherwise;
\* every lookup has a value.
C4_LookupTotal ==
  \A index \in QueryIndices :
    /\ has_collector(index) <=> index \in DOMAIN accepted
    /\ get_collector_def(index) =
         (IF index \in DOMAIN accepted THEN accepted[index]
          ELSE [_index |-> -1, _name |-> "Unknown"])

\* A registry with a defined slot, a slot inside the range that was never
\* defined, and the lookups of both.
C4_Witness ==
  /\ Len(_collectors) = 3
  /\ has_collector(2)
  /\ get_collector_def(2)._index = 2
  /\ ~has_collector(1)
  /\ get_collector_def(1)._index = -1
  /\ ~has_collector(-1)
  /\ ~has_collector(3)

\* C5: add_collector with an index >= 1000 or a negative index rejects the
\* mutation: the registry (its size and every slot) and the liveness flag
\* are the same after the call as before, and the process goes on.
C5_RejectsBadIndex ==
  [][\A def \in CollectorDefs :
       (def._index >= IndexLimit \/ def._index < 0) /\ AddCollector(def)
         => /\ _collectors' = _collectors
            /\ _is_alive' = _is_alive
            /\ aborted' = aborted]_vars

\* C6: get_collector_fullname returns for every index in every registry
\* state that add_collector calls can reach.
C6_FullnameTerminates ==
  \A index \in QueryIndices : get_collector_fullname(index).returns

\* The walk along parent links from index ends at index 0 or at an undefined
\* index without visiting a collector twice.
RECURSIVE WalkEnds(_, _)
WalkEnds(index, visited) ==
  IF index = 0 \/ ~has_collector(index) THEN TRUE
  ELSE IF index \in visited THEN FALSE
  ELSE WalkEnds(_collectors[index + 1]._parent_index, visited \cup {index})

\* C7: in every reachable registry state the parent links of the defined
\* collectors form no cycle.
C7_ParentGraphAcyclic ==
  \A index \in 0 .. Len(_collectors) - 1 :
    has_collector(index) => WalkEnds(index, {})

\* C8: get_child_distance(x, x) is 0 for every x, defined or not, and
\* get_child_distance(parent, child) is -1 whenever parent # child and child
\* is undefined or is the root index 0.
C8_ChildDistanceBaseCases ==
  /\ \A x \in QueryIndices : get_child_distance(x, x) = Return(0)
  /\ \A parent \in QueryIndices, child \in QueryIndices :
       parent # child /\ (child = 0 \/ child \notin DOMAIN accepted)
         => get_child_distance(parent, child) = Return(-1)

\* A registry where the root is defined, index 1 is an undefined slot inside
\* the range and index 2 is defined, with the distances to them.
C8_Witness ==
  /\ has_collector(0)
  /\ has_collector(2)
  /\ ~has_collector(1)
  /\ get_child_distance(1, 1) = Return(0)
  /\ get_child_distance(2, 1) = Return(-1)
  /\ get_child_distance(2, 0) = Return(-1)

\* C9: the full name of a defined collector is its bare name when its
\* parent index is 0 and otherwise the parent's full name, ":" and its own
\* name (so "Unknown:" and its name below an undefined parent, and the
\* parent's name, ":" and its name below a child of the root); the full name
\* of an undefined index is "Unknown"; on the chain root(0) -> B -> C the
\* full name of C is "B:C".
C9_FullnameShape ==
  /\ \A index \in QueryIndices :
       IF index \notin DOMAIN accepted
       THEN get_collector_fullname(index) = Return("Unknown")
       ELSE LET def == accepted[index]
                up == get_collector_fullname(def._parent_index)
            IN  /\ def._parent_index = 0
                     => get_collector_fullname(index) = Return(def._name)
                /\ def._parent_index # 0 /\ up.returns
                     => get_collector_fullname(index) =
                          Return(up.value \o ":" \o def._name)
                /\ def._parent_index # 0
                   /\ def._parent_index \notin DOMAIN accepted
                     => get_collector_fullname(index) =
                          Return("Unknown:" \o def._name)
                /\ def._parent_index \in DOMAIN accepted \ {0}
                   /\ accepted[def._parent_index]._parent_index = 0
                     => get_collector_fullname(index) =
                          Return(accepted[def._parent_index]._name
                                 \o ":" \o def._name)
  /\ ( /\ 1 \in DOMAIN accepted
       /\ 2 \in DOMAIN accepted
       /\ accepted[1] = [_index |-> 1, _name |-> "B", _parent_index |-> 0]
       /\ accepted[2] = [_index |-> 2, _name |-> "C", _parent_index |-> 1] )
       => get_collector_fullname(2) = Return("B:C")

\* The chain root(0) -> B -> C with the root itself defined.
C9_Witness ==
  /\ has_collector(0)
  /\ get_collector_def(1) = [_index |-> 1, _name |-> "B", _parent_index |-> 0]
  /\ get_collector_def(2) = [_index |-> 2, _name |-> "C", _parent_index |-> 1]
  /\ get_collector_fullname(2) = Return("B:C")
  /\ get_collector_fullname(1) = Return("B")

(***************************************************************************)
(* Properties of the session's liveness and of close().                    *)
(***************************************************************************)

\* C1: close() is idempotent.  Over any sequence of close() calls the reader
\* is closed exactly once, by the first call; after one call or many the
\* client data is not alive and holds no reader; and a close() on closed
\* client data changes nothing but the count of calls made.
C1_CloseIdempotent ==
  /\ [](reader_closes = (IF close_calls = 0 THEN 0 ELSE 1))
  /\ [](close_calls > 0 => ~_is_alive /\ _reader = NULL)
  /\ [][~_is_alive /\ Close
         => UNCHANGED <<_is_alive, _reader, reader_closes, _collectors,
                        _threads, aborted>>]_vars

\* close() has been called twice, with recorded data in between.
C1_Witness ==
  /\ close_calls = 2
  /\ reader_closes = 1
  /\ ~_is_alive
  /\ _reader = NULL
  /\ Len(_collectors) > 0

\* C2: once the client data is not alive, no add_collector, define_thread or
\* record_new_frame changes the collector registry, the thread table or a
\* frame store.
C2_NoMutationAfterClose ==
  [][~_is_alive => _collectors' = _collectors /\ _threads' = _threads]_vars

C10_NameBackfilled ==
  /\ [](\A i \in ThreadQueryIndices :
          get_thread_name(i) =
            (IF i \in DOMAIN named THEN named[i] ELSE "Unknown"))
  /\ [][\A i \in ThreadIndices :
          ( \/ DefineThread(i, "")
            \/ GetThreadData(i)
            \/ \E n \in EndFrameNumbers : RecordNewFrame(i, n, [time |-> n]) )
            => \A j \in ThreadQueryIndices :
                 get_thread_name(j)' = get_thread_name(j)]_vars

\* Thread 0 is named and has recorded a frame (an implicit define with the
\* empty name); thread 1 has only been defined without a name.
C10_Witness ==
  /\ Len(_threads) = 2
  /\ get_thread_name(0) = "Render"
  /\ _threads[1]._data # NULL
  /\ _threads[1]._data._frames # <<>>
  /\ _threads[2]._data # NULL
  /\ get_thread_name(1) = "Unknown"

\* C11: define_thread with an index >= 1000 leaves the thread table as it
\* is (no slot added, no name changed, no PStatThreadData created) and
\* returns; record_new_frame for such an index stores the frame nowhere.
C11_RejectsBigThreadIndex ==
  \A i \in {IndexLimit, IndexLimit + 1} :
    /\ ~define_thread_throws(i)
    /\ \A name \in ThreadNames :
         /\ define_thread(_threads, i, name) = _threads
         /\ NamedAfter(i, name) = named
    /\ \A n \in EndFrameNumbers :
         record_new_frame(_threads, i, n, [time |-> n]) = _threads

\* A thread table with a named thread that has recorded a frame, on which
\* the calls with index 1000 are made.
C11_Witness ==
  /\ Len(_threads) = 2
  /\ _threads[2]._name = "Main"
  /\ _threads[2]._data # NULL
  /\ _threads[2]._data._frames # <<>>
  /\ define_thread(_threads, IndexLimit, "Render") = _threads
  /\ record_new_frame(_threads, IndexLimit, 0, [time |-> 0]) = _threads

\* The thread has an entry of its own: a define_thread, get_thread_data or
\* record_new_frame for this index has created its PStatThreadData.  (A
\* slot pushed only to make room for a higher index has none.)
Materialised(index) ==
  /\ index >= 0
  /\ index < Len(_threads)
  /\ _threads[index + 1]._data # NULL

\* C12 as stated: has_thread is true exactly for the threads defined by any
\* call (with any name, by get_thread_data, or by a recorded frame), and
\* get_thread_name is "Unknown" exactly for the others.
C12_HasThreadMirrorsRegistry ==
  \A i \in ThreadQueryIndices :
    /\ has_thread(i) <=> Materialised(i)
    /\ (get_thread_name(i) = "Unknown") <=> ~Materialised(i)

\* C12 as amended: has_thread is true exactly for the threads that have
\* been given a non-empty name, and false outside the allocated range, for
\* slots never defined and for threads that exist only through a define
\* with the empty name, get_thread_data or a recorded frame;
\* get_thread_name is "Unknown" exactly where has_thread is false.
C12_HasThreadIffNamed ==
  \A i \in ThreadQueryIndices :
    /\ has_thread(i) <=> i \in DOMAIN named
    /\ has_thread(i) => Materialised(i)
    /\ (get_thread_name(i) = "Unknown") <=> ~has_thread(i)

\* Thread 0 exists with a frame recorded but was never named; thread 1 has
\* been named.
C12_Witness ==
  /\ Len(_threads) = 2
  /\ Materialised(0)
  /\ _threads[1]._data._frames # <<>>
  /\ ~has_thread(0)
  /\ get_thread_name(0) = "Unknown"
  /\ has_thread(1)
  /\ ~has_thread(2)

\* The largest of two numbers.
Max(a, b) == IF a >= b THEN a ELSE b

\* C13: get_thread_data(index) for 0 <= index < 1000 returns a non-null
\* PStatThreadData; it grows the table just enough to cover index, creates
\* the thread's data when there was none, and changes nothing else: not the
\* thread's name, not its data when it had some, not another thread's
\* entry, and nothing outside the thread table.
C13_GetThreadDataMaterialises ==
  /\ [](\A index \in (0 .. MaxThread + 1) \cup {IndexLimit - 1} :
          LET after == define_thread(_threads, index, "") IN
          /\ ~define_thread_throws(index)
          /\ get_thread_data_result(after, index) # NULL
          /\ Len(after) = Max(Len(_threads), index + 1)
          /\ \A j \in 1 .. Len(after) :
               IF j <= Len(_threads)
               THEN \/ after[j] = _threads[j]
                    \/ /\ j = index + 1
                       /\ _threads[j]._data = NULL
                       /\ after[j] = [_threads[j] EXCEPT !._data = NewThreadData]
               ELSE \/ after[j] = NewThread
                    \/ /\ j = index + 1
                       /\ after[j] = [NewThread EXCEPT !._data = NewThreadData])
  /\ [][\A index \in 0 .. MaxThread :
          GetThreadData(index)
            => /\ _threads' = define_thread(_threads, index, "")
               /\ UNCHANGED <<_is_alive, _reader, _collectors, aborted,
                              named>>]_vars

\* Thread 1 exists and is named, slot 0 was pushed to make room for it and
\* has no data, and get_thread_data(0) is made there.
C13_Witness ==
  /\ Len(_threads) = 2
  /\ _threads[1]._data = NULL
  /\ _threads[2]._name = "Main"
  /\ _threads[2]._data # NULL
  /\ get_thread_data_result(define_thread(_threads, 0, ""), 0) = NewThreadData
  /\ define_thread(_threads, 0, "")[2] = _threads[2]

\* The frame store is well formed: every slot is a hole or a frame, and a
\* store that holds frames ends with one.
StoreWellFormed(data) ==
  /\ \A i \in 1 .. Len(data._frames) :
       data._frames[i] = NULL \/ data._frames[i] \in FrameDatas
  /\ data._frames # <<>> => data._frames[Len(data._frames)] # NULL

\* Every timestamp retained lies within the history of the latest one.
InsideWindow(data) ==
  \A m \in RetainedFrames(data) :
    get_latest_time(data) - get_frame(data, m).time <= data._history

\* The store after the three frames are recorded in this order.
RecordThree(data, a, b, c) ==
  thread_data_record_new_frame(
    thread_data_record_new_frame(
      thread_data_record_new_frame(data, a, [time |-> 0]),
      b, [time |-> 1]),
    c, [time |-> 2])

\* What C14 says of one record: after is the store that recording
\* frame_data under n has made of before.
RecordedAndOthersKept(before, after, n, frame_data) ==
  /\ has_frame(after, n)
  /\ get_frame(after, n) = frame_data
  /\ after._first_frame_number = before._first_frame_number
  /\ \A m \in (-1 .. MaxFrame + 1) \ {n} :
       /\ has_frame(after, m) <=> has_frame(before, m)
       /\ get_frame(after, m) = get_frame(before, m)
       /\ ~has_frame(after, m) => get_frame(after, m) = _null_frame

\* What C14 says of three records on a fresh store: after is the store
\* with a, b and c recorded in this order.
ThreeRetrievable(after, a, b, c) ==
  /\ get_frame(after, a) = [time |-> 0]
  /\ get_frame(after, b) = [time |-> 1]
  /\ get_frame(after, c) = [time |-> 2]
  /\ \A m \in (0 .. 8) \ {a, b, c} :
       ~has_frame(after, m) /\ get_frame(after, m) = _null_frame

\* The hypothesis of C14: the record is accepted and every timestamp is
\* inside the history window before and after it.
RecordInsideWindow(before, n, frame_data) ==
  /\ n >= before._first_frame_number
  /\ InsideWindow(before)
  /\ InsideWindow(Placed(before, n, frame_data))

Monotone(data) ==
  \A m \in RetainedFrames(data), n \in RetainedFrames(data) :
    m <= n => get_frame(data, m).time <= get_frame(data, n).time

\* The store after frames 0 .. last are recorded in this order, step half
\* seconds apart from timestamp 0 on.
RECURSIVE RecordInOrder(_, _, _)
RecordInOrder(data, last, step) ==
  IF last < 0 THEN data
  ELSE thread_data_record_new_frame(RecordInOrder(data, last - 1, step),
                                    last, [time |-> last * step])

\* What C15 says of the store a record leaves.
OldestInsideWindow(after) ==
  /\ ~is_empty(after)
       => get_latest_time(after) - get_oldest_time(after) <= get_history(after)
  /\ Monotone(after) => InsideWindow(after)

\* What C15 says of the store left by frames 0 .. 10 recorded in order a
\* second apart with a history of 3 seconds: the frames of 7 seconds and
\* later are left.
OnlyRecentLeft(after) ==
  \A m \in -1 .. 11 : has_frame(after, m) <=> (m >= 7 /\ m <= 10)

\* C15: after every record_new_frame the lowest frame retained is no older
\* than the latest timestamp minus the history; when the timestamps
\* retained do not decrease with the frame number, no frame older than that
\* is retained at all; in particular after frames with timestamps 0, 1, 2,
\* ... 10 seconds are recorded in order on a fresh store with a history of
\* 3 seconds, has_frame is false for every frame whose timestamp is below 7
\* seconds.
C15_EvictsBeyondHistory ==
  /\ \A n \in FrameNumbers, frame_data \in FrameDatas :
       OldestInsideWindow(thread_data_record_new_frame(Store, n, frame_data))
  /\ Store = NewThreadData
       => OnlyRecentLeft(RecordInOrder(set_history(Store, 6), 10, 2))

\* The history is 1 and frames 0 .. 2 arrived with timestamps 0 .. 2: only
\* the frames of timestamps 1 and 2 are left.
C15_Witness ==
  /\ get_history(Store) = 1
  /\ Store._first_frame_number = 1
  /\ Store._frames = <<[time |-> 1], [time |-> 2]>>
  /\ ~has_frame(Store, 0)

\* Frame numbers below, inside and above every range a store can have.
QueryFrameNumbers == -1 .. MaxFrame + 1

\* The range of a store: has_frame is false outside it, and the oldest and
\* the latest frame number bound the frames of a store that is not empty.
RangeBounds(data) ==
  /\ StoreWellFormed(data)
  /\ data._first_frame_number >= 0
  /\ \A n \in QueryFrameNumbers :
       (SlotOf(data, n) < 1 \/ SlotOf(data, n) > Len(data._frames))
         => ~has_frame(data, n) /\ get_frame(data, n) = _null_frame
  /\ ~is_empty(data)
       => /\ get_oldest_frame_number(data) <= get_latest_frame_number(data)
          /\ has_frame(data, get_oldest_frame_number(data))
          /\ has_frame(data, get_latest_frame_number(data))
          /\ get_latest_frame_number(data)
               = data._first_frame_number + Len(data._frames) - 1
          /\ \A m \in RetainedFrames(data) :
               /\ get_oldest_frame_number(data) <= m
               /\ m <= get_latest_frame_number(data)

\* Every frame of after, the store that recording frame_data under n has
\* made of before, sits under its own number.
FramesKeepTheirNumber(before, after, n, frame_data) ==
  /\ StoreWellFormed(after)
  /\ after._first_frame_number >= before._first_frame_number
  /\ \A m \in RetainedFrames(after) :
       \/ /\ m = n
          /\ n >= before._first_frame_number
          /\ get_frame(after, m) = frame_data
       \/ /\ m # n
          /\ has_frame(before, m)
          /\ get_frame(after, m) = get_frame(before, m)

\* C16: after any sequence of record_new_frame calls (numbers increasing,
\* out of order, repeated or skipping; timestamps in any order) and
\* set_history calls, the slots are those of the frame numbers
\* _first_frame_number .. _first_frame_number + length - 1, each a hole or
\* a frame; has_frame is false outside that range; a store that is not
\* empty has get_oldest_frame_number <= get_latest_frame_number, both
\* holding a frame and bounding every frame retained; and every frame sits
\* under its own number: what a record leaves under a number is the frame
\* just recorded under it or the frame that was there before.
C16_ContiguousRange ==
  /\ RangeBounds(Store)
  /\ \A n \in FrameNumbers, frame_data \in FrameDatas :
       FramesKeepTheirNumber(
         Store, thread_data_record_new_frame(Store, n, frame_data),
         n, frame_data)
  /\ \A time \in Histories :
       /\ set_history(Store, time)._frames = Store._frames
       /\ set_history(Store, time)._first_frame_number
            = Store._first_frame_number

\* A frame has been evicted and the timestamps retained are out of order.
C16_Witness ==
  /\ Store._first_frame_number = 1
  /\ Store._frames = <<[time |-> 2], [time |-> 1]>>
  /\ ~Monotone(Store)
  /\ get_oldest_frame_number(Store) = 1
  /\ get_latest_frame_number(Store) = 2

\* What C17 says of after, the store that recording frame_data under the
\* retained number n has made of before; placed is the store in between,
\* with the frame in its slot and nothing evicted yet.
OneSlotChanged(before, placed, after, n, frame_data) ==
  /\ get_frame(after, n) = frame_data
  /\ Len(placed._frames) = Len(before._frames)
  /\ \A m \in QueryFrameNumbers \ {n} :
       get_frame(after, m) = get_frame(before, m)

\* C17 as stated: recording under a frame number that holds a frame leaves
\* the new data under that number, does not change the number of slots, and
\* changes no other number's data.
C17_OverwriteChangesOneSlot ==
  \A n \in FrameNumbers, frame_data \in FrameDatas :
    has_frame(Store, n)
      => OneSlotChanged(Store, Placed(Store, n, frame_data),
                        thread_data_record_new_frame(Store, n, frame_data),
                        n, frame_data)

\* The same with the eviction accounted for.
OneSlotChangedThenEvicted(before, placed, after, n, frame_data) ==
  /\ Len(placed._frames) = Len(before._frames)
  /\ placed._first_frame_number = before._first_frame_number
  /\ get_frame(placed, n) = frame_data
  /\ \A m \in QueryFrameNumbers \ {n} :
       get_frame(placed, m) = get_frame(before, m)
  /\ has_frame(after, n) => get_frame(after, n) = frame_data
  /\ \A m \in QueryFrameNumbers \ {n} :
       /\ has_frame(after, m) => get_frame(after, m) = get_frame(before, m)
       /\ ~has_frame(before, m) => ~has_frame(after, m)
  /\ InsideWindow(placed) => after = placed

\* C17 as amended: recording under a frame number that holds a frame
\* replaces that slot alone (the number of slots and every other slot are
\* as before), and the eviction that follows the record then drops the
\* frames older than the history, the one just recorded included: every
\* number that still holds a frame afterwards holds the new data if it is
\* the recorded number and its old data otherwise, and when every timestamp
\* is inside the history window nothing is dropped.
C17_OverwriteThenEvict ==
  \A n \in FrameNumbers, frame_data \in FrameDatas :
    has_frame(Store, n)
      => OneSlotChangedThenEvicted(
           Store, Placed(Store, n, frame_data),
           thread_data_record_new_frame(Store, n, frame_data), n, frame_data)

\* A store of three frames whose middle one is recorded again with another
\* timestamp: the slot holds the new frame, the others are as before.
C17_Witness ==
  /\ Len(Store._frames) = 3
  /\ \A m \in RetainedFrames(Store) : get_frame(Store, m).time = 1
  /\ has_frame(Store, Store._first_frame_number + 1)
  /\ LET n == Store._first_frame_number + 1
         after == thread_data_record_new_frame(Store, n, [time |-> 2])
     IN  /\ get_frame(after, n) = [time |-> 2]
         /\ get_frame(after, n - 1) = get_frame(Store, n - 1)
         /\ get_frame(after, n + 1) = get_frame(Store, n + 1)
         /\ Len(after._frames) = 3

\* The times asked for: before, among and after every timestamp.
QueryTimes == -1 .. MaxTime + 1

\* What C18 says of found, the answer for time without a hint.
SameForEveryHint(data, time, found) ==
  /\ \A hint \in QueryFrameNumbers :
       get_frame_number_at_time(data, time, hint) = found
  /\ ~is_empty(data)
       => /\ has_frame(data, found)
          /\ \A m \in RetainedFrames(data) :
               TimeDistance(data, found, time) <= TimeDistance(data, m, time)
          /\ get_frame_at_time(data, time) = get_frame(data, found)
  /\ is_empty(data) => get_frame_at_time(data, time) = _null_frame

QueryWindows == 0 .. DefaultFrameRateWindow

\* The timestamps of the given frames of the store.
TimesOf(data, frame_numbers) ==
  {get_frame(data, m).time : m \in frame_numbers}

\* rate is (k - 1) / (latest - earliest) for the frames within, and 0 when
\* there are fewer than two or they span no time.
IsMeanRate(rate, k, times) ==
  /\ rate.den > 0
  /\ k < 2 => rate.num = 0
  /\ k >= 2
       => /\ SetMax(times) = SetMin(times) => rate.num = 0
          /\ SetMax(times) # SetMin(times)
               => rate.num * (SetMax(times) - SetMin(times))
                    = (k - 1) * rate.den

\* The frames retained whose timestamp lies within window of latest.
Within(data, latest, window) ==
  {m \in RetainedFrames(data) :
     Abs(latest - get_frame(data, m).time) <= window}

\* The rate, kept in frames per half second, is 2 frames per second:
\* three intervals in three half seconds.
TwoPerSecond(rate) == rate.num = 3 /\ 2 * rate.num = 2 * rate.den

\* What C19 says of the rate over the frames within the window.
RateOver(data, window, within) ==
  IsMeanRate(get_frame_rate(data, window), Cardinality(within),
             TimesOf(data, within))

\* C19: get_frame_rate(window) is (k - 1) / (latest - earliest), with k the
\* number of frames retained whose timestamp lies within window of
\* get_latest_time and latest and earliest the extreme timestamps among
\* them; it is 0 when k < 2 (an empty store included) and when latest =
\* earliest, and nothing is divided by zero; four frames at 0, 0.5, 1 and
\* 1.5 seconds on a fresh store with the default window of 3 seconds give
\* 2 per second.
C19_FrameRate ==
  /\ \A window \in QueryWindows :
       RateOver(Store, window, Within(Store, get_latest_time(Store), window))
  /\ is_empty(Store) => get_frame_rate(Store, DefaultFrameRateWindow).num = 0
  /\ Store = NewThreadData
       => TwoPerSecond(get_frame_rate(RecordInOrder(set_history(Store, 6), 3, 1),
                                      DefaultFrameRateWindow))

\* Three frames half a second apart: two per second over the default
\* window and over a window of one second, none over a window of 0.
C19_Witness ==
  /\ Store._frames = <<[time |-> 0], [time |-> 1], [time |-> 2]>>
  /\ get_frame_rate(Store, DefaultFrameRateWindow) = Rate(2, 2)
  /\ get_frame_rate(Store, 2) = Rate(2, 2)
  /\ get_frame_rate(Store, 1) = Rate(1, 1)
  /\ get_frame_rate(Store, 0) = Rate(0, 1)

\* The connections for which the listener reported a new connection.
Welcomed ==
  {c \in 1 .. Len(nout) : nout[c].text = "Got new connection from"}

\* C20: when make_monitor() returns NULL on an accepted connection,
\* connection_opened creates no reader and registers nothing: the manager's
\* readers are the same after the call as before, so its readers are
\* always those of the connections that got a monitor, one each.
C20_DeclineRegistersNothing ==
  /\ [](/\ connection_opened(_readers, NewConnection, NULL) = _readers
        /\ DOMAIN _readers = Welcomed
        /\ \A c \in DOMAIN _readers :
             /\ _readers[c]._monitor # NULL
             /\ _readers[c]._tcp_connection = PT(c))
  /\ [][\A address \in Addresses :
          ConnectionOpened(address, NULL)
            => /\ _readers' = _readers
               /\ nout' = Append(nout, [text |-> "Couldn't create monitor!"])]_vars

\* A first connection got a monitor, a second one was declined, a third one
\* got a monitor: the manager has the readers of the first and the third.
C20_Witness ==
  /\ Len(nout) = 3
  /\ nout[2] = [text |-> "Couldn't create monitor!"]
  /\ DOMAIN _readers = {1, 3}

\* C21: when close() is called on the same session from the decode path
\* and from a shutdown request, under every interleaving the reader is
\* closed at most once, the process survives, and once both calls have
\* returned the session is not alive, its reader is released and it was
\* closed exactly once.
C21_ConcurrentCloseOnce ==
  /\ reader_closes <= 1
  /\ ~aborted
  /\ (\A t \in Callers : pc[t] = "done")
       => ~_is_alive /\ _reader = NULL /\ reader_closes = 1

\* C22: a session is alive when it is created, and once is_alive() is false
\* it is false in every later state, whichever of close, add_collector,
\* define_thread, get_thread_data and record_new_frame is applied next.
C22_ClosedIsTerminal ==
  /\ (close_calls = 0 => _is_alive)
  /\ [][~_is_alive => ~_is_alive']_vars

\* A closed session on which close was called again and on which collectors
\* and threads are defined and a frame is recorded.
C22_Witness ==
  /\ ~_is_alive
  /\ close_calls = 2
  /\ has_collector(0)
  /\ has_thread(0)
  /\ ~is_empty(_threads[1]._data)

\* The indices on the upward walk from index: index itself, its parent, the
\* parent's parent, up to and including the root 0 or the first undefined
\* index.  Defined on registries whose parent links form no cycle.
RECURSIVE Chain(_)
Chain(index) ==
  IF index = 0 \/ ~has_collector(index) THEN <<index>>
  ELSE <<index>> \o Chain(_collectors[index + 1]._parent_index)

\* The number of parent hops from child up to parent, -1 when the walk from
\* child ends without meeting parent.
HopsTo(parent, chain) ==
  IF \E k \in DOMAIN chain : chain[k] = parent
  THEN (CHOOSE k \in DOMAIN chain : chain[k] = parent) - 1
  ELSE -1

\* C23: on a registry whose parent links are acyclic,
\* get_child_distance(parent, child) is the number of parent hops on the
\* upward walk from child to parent when the walk meets parent (parent may
\* be an undefined, forward-referenced index or the root 0), and -1 when the
\* walk reaches the root or an undefined collector without meeting parent.
C23_AncestorDistance ==
  C7_ParentGraphAcyclic
    => \A parent \in QueryIndices, child \in QueryIndices :
         get_child_distance(parent, child) = Return(HopsTo(parent, Chain(child)))

\* The chain root(0) <- 1 <- 2 with the distances along it, upwards and
\* downwards.
C23_Witness ==
  /\ C7_ParentGraphAcyclic
  /\ Chain(2) = <<2, 1, 0>>
  /\ has_collector(0)
  /\ get_child_distance(1, 2) = Return(1)
  /\ get_child_distance(0, 2) = Return(2)
  /\ get_child_distance(0, 1) = Return(1)
  /\ get_child_distance(2, 1) = Return(-1)

\* A collector below a parent index whose definition has not arrived.
C23_ForwardParent ==
  /\ C7_ParentGraphAcyclic
  /\ Chain(1) = <<1, 2>>
  /\ ~has_collector(2)
  /\ get_child_distance(2, 1) = Return(1)

\* C24: definitions are applied in delivery order, the last one delivered
\* for an index winning: after an add_collector(def) with a valid index,
\* get_collector_def(def._index) is def, has_collector and get_collector_def
\* of every other index are what they were before the call, and the indices
\* the table grew over without defining them are undefined.
C24_LastWriterWins ==
  [][\A def \in ValidDefs :
       AddCollector(def)
         => /\ has_collector(def._index)'
            /\ get_collector_def(def._index)' = def
            /\ \A other \in QueryIndices \ {def._index} :
                 /\ has_collector(other)' = has_collector(other)
                 /\ get_collector_def(other)' = get_collector_def(other)
            /\ \A covered \in Len(_collectors) .. def._index - 1 :
                 ~has_collector(covered)']_vars

\* Collector 2 arrived first and collector 0 after it; index 1, which the
\* table grew over, is undefined.
C24_Witness ==
  /\ Len(_collectors) = 3
  /\ get_collector_def(2) = [_index |-> 2, _name |-> "B", _parent_index |-> 0]
  /\ get_collector_def(0) = [_index |-> 0, _name |-> "C", _parent_index |-> 1]
  /\ ~has_collector(1)

\* C25: define_thread(index, name) applied twice in a row gives the thread
\* table that applying it once gives, and a thread's PStatThreadData, once
\* created, is never replaced: a step of define_thread or get_thread_data
\* leaves every existing frame store as it is, and a step of
\* record_new_frame changes only the thread's own store, by recording the
\* frame in it.
C25_DefineIdempotentStoreKept ==
  /\ [](\A index \in ThreadIndices, name \in ThreadNames :
         ~define_thread_throws(index)
           => LET once == define_thread(_threads, index, name)
              IN  define_thread(once, index, name) = once)
  /\ [][\A slot \in DOMAIN _threads :
          _threads[slot]._data # NULL
            => /\ slot \in DOMAIN _threads'
               /\ \/ _threads'[slot]._data = _threads[slot]._data
                  \/ \E n \in EndFrameNumbers :
                       /\ RecordNewFrame(slot - 1, n, [time |-> n])
                       /\ _threads'[slot]._data =
                            thread_data_record_new_frame(
                              _threads[slot]._data, n, [time |-> n])]_vars

\* Both threads hold recorded frames and thread 0 has been given a name.
C25_Witness ==
  /\ Len(_threads) = 2
  /\ _threads[1]._name = "Render"
  /\ has_frame(_threads[1]._data, 0)
  /\ has_frame(_threads[1]._data, MaxFrame)
  /\ has_frame(_threads[2]._data, MaxFrame)
  /\ _threads[2]._name = ""

\* C26: for every connection on which make_monitor() succeeds the listener
\* creates one reader bound to that connection's monitor, and the manager
\* has it under that connection before the reader is given the connection;
\* after any sequence of accepts the manager has as many readers as there
\* were accepts with a monitor.
C26_OneReaderPerAccept ==
  /\ [](/\ DOMAIN _readers = Welcomed
        /\ Cardinality(DOMAIN _readers) = Cardinality(Welcomed)
        /\ \A c \in DOMAIN _readers :
             /\ _readers[c]._monitor = [monitor |-> c]
             /\ _readers[c]._tcp_connection \in {NULL, PT(c)})
  /\ [][/\ \A c \in DOMAIN _readers' :
            _readers'[c]._tcp_connection # NULL => c \in DOMAIN _readers
        /\ \A address \in Addresses :
            ConnectionRegister(address, [monitor |-> NewConnection])
              => /\ DOMAIN _readers' = DOMAIN _readers \cup {NewConnection}
                 /\ NewConnection \notin DOMAIN _readers
                 /\ \A c \in DOMAIN _readers : _readers'[c] = _readers[c]]_vars

\* The first connection's reader is registered and attached, the second
\* connection was declined, the third one's reader is registered and not
\* attached yet.
C26_Witness ==
  /\ Len(nout) = 3
  /\ DOMAIN _readers = {1, 3}
  /\ _readers[1]._tcp_connection = PT(1)
  /\ _readers[3]._tcp_connection = NULL

\* Whether frame number n is a hole inside the range of data.
IsHole(data, n) ==
  /\ SlotOf(data, n) >= 1
  /\ SlotOf(data, n) <= Len(data._frames)
  /\ ~has_frame(data, n)

\* C27 as stated: a record below the lowest frame number leaves the range,
\* the lowest frame number and every frame as they are, and a record into a
\* hole of the range leaves the frame in that hole.
C27_TooOldChangesNothing ==
  \A n \in QueryFrameNumbers, frame_data \in FrameDatas :
    LET after == thread_data_record_new_frame(Store, n, frame_data)
    IN  /\ n < Store._first_frame_number => after = Store
        /\ IsHole(Store, n) => get_frame(after, n) = frame_data

\* after is before with nothing stored and the frames older than the
\* history dropped.
NothingStored(before, after, n) ==
  /\ ~has_frame(after, n)
  /\ after._first_frame_number >= before._first_frame_number
  /\ \A m \in QueryFrameNumbers :
       /\ has_frame(after, m) => get_frame(after, m) = get_frame(before, m)
       /\ ~has_frame(before, m) => ~has_frame(after, m)
  /\ InsideWindow(before) => after = before

\* C27 as amended: a record below the lowest frame number stores nothing
\* (no number gains a frame, no frame's data changes, the range does not
\* extend downward), and a record into a hole of the range puts the frame
\* in that hole alone; the eviction every record ends with then drops the
\* frames older than the history, so that the store is unchanged by the
\* rejected record, and holds the late frame in the hole, when every
\* timestamp is inside the history window.
C27_TooOldNotStored ==
  \A n \in QueryFrameNumbers, frame_data \in FrameDatas :
    /\ n < Store._first_frame_number
         => NothingStored(
              Store, thread_data_record_new_frame(Store, n, frame_data), n)
    /\ IsHole(Store, n)
         => OneSlotChangedThenEvicted(
              Store, Placed(Store, n, frame_data),
              thread_data_record_new_frame(Store, n, frame_data),
              n, frame_data)

\* Frame 0 has been evicted and frame 1 is a hole below frame 2: a record
\* for frame 0 changes nothing and a record for frame 1 fills the hole.
C27_Witness ==
  /\ Store._first_frame_number = 1
  /\ Store._frames = <<NULL, [time |-> 2]>>
  /\ thread_data_record_new_frame(Store, 0, [time |-> 2]) = Store
  /\ get_frame(thread_data_record_new_frame(Store, 1, [time |-> 2]), 1)
       = [time |-> 2]

\* C29: after update_status_bar, labels and _status_bar_collectors
\* correspond position by position: every label after the frame-rate label
\* has a collector at its position and shows that collector's text, so that
\* a double click on it opens that collector's chart; also after the call
\* that appends labels for two or more newly included collectors.
C29_LabelsMatchCollectors ==
  \A i \in 2 .. Len(gtk_monitor._status_bar_labels) :
    /\ i <= Len(gtk_monitor._status_bar_collectors)
    /\ gtk_monitor._status_bar_labels[i].collector
         = gtk_monitor._status_bar_collectors[i]

\* C28: after lost_connection() or the destructor's shutdown() the graph
\* set and the chart-menu list are empty and the window pointer is null; no
\* graph, chart menu or window is ever deleted twice, and a shutdown() that
\* follows a lost connection deletes nothing.
C28_ShutdownOnce ==
  /\ [](\A object \in DOMAIN deleted : deleted[object] = 1)
  /\ [][/\ LostConnection \/ Destructor
            => /\ gtk_monitor'._graphs = <<>>
               /\ gtk_monitor'._chart_menus = <<>>
               /\ gtk_monitor'._window = NULL
        /\ Lost => deleted' = deleted /\ gtk_monitor' = gtk_monitor]_vars

\* The connection was lost twice and the destructor has run, on a monitor
\* that had a window, a graph and a chart menu, and another graph that was
\* removed before.
C28_Witness ==
  /\ destructed
  /\ Len(nout) = MaxCloseCalls
  /\ TheWindow \in DOMAIN deleted
  /\ [kind |-> "chart_menu", id |-> 1] \in DOMAIN deleted
  /\ \A graph \in 1 .. MaxGraphs :
       [kind |-> "graph", id |-> graph] \in DOMAIN deleted

====
